---- MODULE Spec2Model ----
(***************************************************************************)
(* Signaling relay of p2p-chat (src/backend/src/main.rs).                  *)
(*                                                                         *)
(* One session per admitted connection: a reader (the loop of              *)
(* handle_socket) and a writer task joined by a bounded mpsc channel, and  *)
(* the shared room registry (AppState.rooms) behind one mutex.  The body   *)
(* of every registry function runs with the mutex held and contains no     *)
(* await, so each is one atomic step; the steps between two lock           *)
(* acquisitions of one reader interleave freely with the other tasks.      *)
(* Reading a frame touches no shared state, so it is taken together with   *)
(* the first registry call made for that frame.                            *)
(***************************************************************************)
EXTENDS Integers, Sequences, FiniteSets

\* ------------------------------------------------------------- bounds
\* Items the inbound streams yield in one run, over all connections:
\* every completion of stream.next() (a frame, an error, the end).
MaxReads == 3

\* The messages list of the chat page is followed up to this length.
MaxMessages == 3

\* No bound on the reads: the runs that fill an outbound queue (SpecLoad)
\* are finite because the queues are.
Unbounded == 0 - 1

\* stream.next() may yield another item in this run.
can_read(b) == b # 0
\* What is left once it has.
spend(b) == IF b = Unbounded THEN b ELSE b - 1

\* ---------------------------------------------------------- constants
\* mpsc::channel(32)
QueueCap == 32
\* room_peers.len() >= 2
RoomCap == 2

\* Connections that may be opened in one run (one Uuid::new_v4() each).
Conns == {"c1", "c2", "c3"}
NoConn == "none"

\* Requests to /register and /login served in one run (one task each).
Https == {"h1", "h2"}
\* A mutex nobody holds.
Unlocked == "none"

\* The data channels one chat page may create (one per peers notification
\* it receives).
Channels == {"dc1", "dc2"}
\* data_channel is None.
NoChannel == "none"

\* ------------------------------------------------------------- tokens
NoToken == "absent"
Tokens == {"tok-alice", "tok-bob", "tok-forged"}
\* What the client behind each connection can present: its own token (c1
\* and c3 are two logins of alice), a forged one, or none.
Presents(c) ==
    {IF c = "c2" THEN "tok-bob" ELSE "tok-alice", "tok-forged", NoToken}
Unauthorized == "401"

\* (variant: the subject is taken from a token whose signature fails)
validate_token_unverified(token) ==
    CASE token = "tok-alice" -> "alice"
      [] token = "tok-bob" -> "bob"
      [] token = "tok-forged" -> "mallory"
      [] OTHER -> Unauthorized

\* decode::<Claims>(token, key, Validation::default()): the subject of a
\* token whose signature and expiry verify, UNAUTHORIZED otherwise.
validate_token(token) ==
    CASE token = "tok-alice" -> "alice"
      [] token = "tok-bob" -> "bob"
      [] OTHER -> Unauthorized

\* ------------------------------------------------------ inbound text
JoinR1 == "{\"type\":\"JoinRoom\",\"room\":\"r1\"}"
JoinR2 == "{\"type\":\"JoinRoom\",\"room\":\"r2\"}"
\* field order and unknown fields are free in serde's tagged enums
OfferR1 == "{\"room\":\"r1\",\"sdp\":\"X\",\"type\":\"Offer\",\"n\":1}"
AnswerR1 == "{\"type\":\"Answer\",\"room\":\"r1\",\"sdp\":\"Y\"}"
IceR2 == "{\"type\":\"IceCandidate\",\"room\":\"r2\",\"candidate\":\"Z\"}"
NotJson == "hello"
UnknownType == "{\"type\":\"Leave\",\"room\":\"r1\"}"
NoSdp == "{\"type\":\"Offer\",\"room\":\"r1\"}"
NoType == "{\"room\":\"r1\"}"

InboundTexts ==
    {JoinR1, JoinR2, OfferR1, AnswerR1, IceR2, NotJson, UnknownType, NoSdp,
     NoType}

Malformed == [type |-> "Malformed", room |-> "", payload |-> ""]

\* (variant: a tag that names no variant falls back to JoinRoom)
from_str_lenient(text) ==
    CASE text = JoinR1 -> [type |-> "JoinRoom", room |-> "r1", payload |-> ""]
      [] text = JoinR2 -> [type |-> "JoinRoom", room |-> "r2", payload |-> ""]
      [] text = OfferR1 -> [type |-> "Offer", room |-> "r1", payload |-> "X"]
      [] text = AnswerR1 -> [type |-> "Answer", room |-> "r1", payload |-> "Y"]
      [] text = IceR2 -> [type |-> "IceCandidate", room |-> "r2", payload |-> "Z"]
      [] text = UnknownType -> [type |-> "JoinRoom", room |-> "r1", payload |-> ""]
      [] OTHER -> Malformed

\* serde_json::from_str::<SignalingMessage>(&text)
from_str(text) ==
    CASE text = JoinR1 -> [type |-> "JoinRoom", room |-> "r1", payload |-> ""]
      [] text = JoinR2 -> [type |-> "JoinRoom", room |-> "r2", payload |-> ""]
      [] text = OfferR1 -> [type |-> "Offer", room |-> "r1", payload |-> "X"]
      [] text = AnswerR1 -> [type |-> "Answer", room |-> "r1", payload |-> "Y"]
      [] text = IceR2 -> [type |-> "IceCandidate", room |-> "r2", payload |-> "Z"]
      [] OTHER -> Malformed

RelayTypes == {"Offer", "Answer", "IceCandidate"}

\* ----------------------------------------------------- outbound frames
Text(s) == [kind |-> "Text", text |-> s]
Close == [kind |-> "Close", text |-> ""]
NoFrame == [kind |-> "None", text |-> ""]

RoomFullText == "{\"type\":\"error\",\"message\":\"Room full\"}"
NoPeerText == "{\"type\":\"error\",\"message\":\"No peer in room\"}"

\* serde_json::to_string(&json!({"type": "peers", "peers": peers}))
peers_json(peers) ==
    CASE peers = <<"alice", "alice">> -> "{\"peers\":[\"alice\",\"alice\"],\"type\":\"peers\"}"
      [] peers = <<"alice", "bob">> -> "{\"peers\":[\"alice\",\"bob\"],\"type\":\"peers\"}"
      [] peers = <<"bob", "alice">> -> "{\"peers\":[\"bob\",\"alice\"],\"type\":\"peers\"}"
      [] peers = <<"bob", "bob">> -> "{\"peers\":[\"bob\",\"bob\"],\"type\":\"peers\"}"
      [] OTHER -> "{\"peers\":[],\"type\":\"peers\"}"

\* A room without members: HashMap::new()
NoPeers == [i \in {} |-> [user |-> "", tx |-> NoConn]]

\* -------------------------------------------------------------- state
VARIABLES
    rooms,      \* AppState.rooms: room name -> (client_id -> (username, tx))
    pc,         \* position of each session's handle_socket
    username,   \* the identity each session was admitted with
    queue,      \* frames buffered in each session's mpsc channel
    rxOpen,     \* the channel's receiver rx has not been dropped
    txOpen,     \* the session's own sender tx has not been dropped
    wpc,        \* position of each session's writing_task
    writing,    \* the frame the writing task is sending on the socket
    cur,        \* text of the frame the reader is processing
    other,      \* other_id returned by find_other_peer
    held,       \* other_tx returned by get_sender: whose channel it sends to
    budget,     \* items the inbound streams may still yield in this run
    rooms_lock, \* the task holding the mutex of AppState.rooms
    users_lock, \* the task holding the mutex of AppState.users
    users,      \* AppState.users: username -> password
    hpc,        \* position of each register / login request
    data_channel,       \* ChatPage: the data_channel signal
    ready_state,        \* readyState of each RtcDataChannel
    queued_messages,    \* ChatPage: the queued_messages signal
    dc_sent,            \* what send_with_str was given, per channel
    messages,           \* ChatPage: the messages signal
    connection_status   \* ChatPage: the connection_status signal

vars == <<rooms, pc, username, queue, rxOpen, txOpen, wpc, writing, cur,
          other, held, budget, rooms_lock, users_lock, users, hpc,
          data_channel, ready_state, queued_messages, dc_sent, messages,
          connection_status>>

\* The chat page of one browser.
client == <<data_channel, ready_state, queued_messages, dc_sent, messages,
            connection_status>>

\* The credential store, its mutex and the requests that use it.
store == <<users_lock, users, hpc>>

Init ==
    /\ rooms = [r \in {} |-> NoPeers]
    /\ pc = [c \in Conns |-> "new"]
    /\ username = [c \in Conns |-> ""]
    /\ queue = [c \in Conns |-> <<>>]
    /\ rxOpen = [c \in Conns |-> FALSE]
    /\ txOpen = [c \in Conns |-> FALSE]
    /\ wpc = [c \in Conns |-> "none"]
    /\ writing = [c \in Conns |-> NoFrame]
    /\ cur = [c \in Conns |-> ""]
    /\ other = [c \in Conns |-> NoConn]
    /\ held = [c \in Conns |-> NoConn]
    /\ budget = MaxReads
    /\ rooms_lock = Unlocked
    /\ users_lock = Unlocked
    /\ users = [u \in {} |-> ""]
    /\ hpc = [h \in Https |-> "idle"]
    /\ data_channel = NoChannel
    /\ ready_state = [dc \in Channels |-> "uncreated"]
    /\ queued_messages = <<>>
    /\ dc_sent = [dc \in Channels |-> <<>>]
    /\ messages = <<>>
    /\ connection_status = "Disconnected"

\* ------------------------------------------------------- mpsc channel
\* (variant: the frame is put in front of the buffered ones)
try_send_front(qs, tx, frame) ==
    IF tx \in Conns /\ rxOpen[tx] /\ Len(qs[tx]) < QueueCap
    THEN [qs EXCEPT ![tx] = <<frame>> \o @]
    ELSE qs

\* (variant: the capacity of the channel is not tested)
try_send_unbounded(qs, tx, frame) ==
    IF tx \in Conns /\ rxOpen[tx]
    THEN [qs EXCEPT ![tx] = Append(@, frame)]
    ELSE qs

\* Sender::try_send: enqueues unless the channel is full or its receiver
\* is gone; never waits.
try_send(qs, tx, frame) ==
    IF tx \in Conns /\ rxOpen[tx] /\ Len(qs[tx]) < QueueCap
    THEN [qs EXCEPT ![tx] = Append(@, frame)]
    ELSE qs

\* Sender::send(..).await can complete: the receiver is gone (Err) or the
\* channel has a free slot (Ok).  Otherwise the caller stays suspended.
send_ready(c) == ~rxOpen[c] \/ Len(queue[c]) < QueueCap

\* let _ = tx.send(frame).await, once it completes
send(c, frame) ==
    IF rxOpen[c] THEN [queue EXCEPT ![c] = Append(@, frame)] ELSE queue

\* Some Sender clone of c's channel is alive: the session's own tx, a clone
\* stored in the registry, or an other_tx a reader holds before try_send.
has_sender(c) ==
    \/ txOpen[c]
    \/ \E r \in DOMAIN rooms : \E i \in DOMAIN rooms[r] : rooms[r][i].tx = c
    \/ \E d \in Conns : pc[d] = "trySend" /\ held[d] = c

\* ------------------------------------------------------ room registry
\* rooms.entry(room.clone()).or_insert_with(HashMap::new)
or_insert(rms, room) ==
    [r \in DOMAIN rms \cup {room} |-> IF r \in DOMAIN rms THEN rms[r] ELSE NoPeers]

\* (variant: the capacity test off by one)
room_full_off_by_one(room_peers) == Cardinality(DOMAIN room_peers) > RoomCap

\* room_peers.len() >= 2
room_full(room_peers) == Cardinality(DOMAIN room_peers) >= RoomCap

\* room_peers.insert(client_id, (username, tx))
insert(room_peers, client_id, user, tx) ==
    [i \in DOMAIN room_peers \cup {client_id} |->
        IF i = client_id THEN [user |-> user, tx |-> tx] ELSE room_peers[i]]

\* room_peers.len() == 2
room_paired(room_peers) == Cardinality(DOMAIN room_peers) = RoomCap

\* The orders in which room_peers.values() may yield the members.
values_orders(room_peers) ==
    {o \in [1..Cardinality(DOMAIN room_peers) -> DOMAIN room_peers] :
        \A i, j \in DOMAIN o : i # j => o[i] # o[j]}

\* (variant: only the first member is notified)
notify_first_only(qs, room_peers, order, frame) ==
    IF order = <<>> THEN qs
    ELSE try_send(qs, room_peers[Head(order)].tx, frame)

RECURSIVE notify(_, _, _, _)
\* for (_, tx) in room_peers.values() { let _ = tx.try_send(peers frame); }
notify(qs, room_peers, order, frame) ==
    IF order = <<>> THEN qs
    ELSE notify(try_send(qs, room_peers[Head(order)].tx, frame),
                room_peers, Tail(order), frame)

\* (variant: the members are notified before the capacity test)
join_room_notify_first(room, client_id, user, tx, ok) ==
    LET rms == or_insert(rooms, room)
        room_peers == insert(rms[room], client_id, user, tx)
        orders == values_orders(rms[room])
    IN  IF room_full(rms[room])
        THEN /\ ok = FALSE
             /\ rooms' = rms
             /\ \E order \in orders :
                    queue' = notify(queue, rms[room], order,
                                    Text(peers_json(<<rms[room][order[1]].user,
                                                      rms[room][order[2]].user>>)))
        ELSE /\ ok = TRUE
             /\ rooms' = [rms EXCEPT ![room] = room_peers]
             /\ IF room_paired(room_peers)
                THEN \E order \in values_orders(room_peers) :
                        queue' = notify(queue, room_peers, order,
                                        Text(peers_json(<<room_peers[order[1]].user,
                                                          room_peers[order[2]].user>>)))
                ELSE queue' = queue

\* join_room: ok is its result (Ok(()) / Err(())).
join_room(room, client_id, user, tx, ok) ==
    LET rms == or_insert(rooms, room)
        room_peers == insert(rms[room], client_id, user, tx)
    IN  IF room_full(rms[room])
        THEN /\ ok = FALSE
             /\ rooms' = rms
             /\ queue' = queue
        ELSE /\ ok = TRUE
             /\ rooms' = [rms EXCEPT ![room] = room_peers]
             /\ IF room_paired(room_peers)
                THEN \E order \in values_orders(room_peers) :
                        queue' = notify(queue, room_peers, order,
                                        Text(peers_json(<<room_peers[order[1]].user,
                                                          room_peers[order[2]].user>>)))
                ELSE queue' = queue

\* find_other_peer: the ids it may return (the first id of the iteration
\* that differs from client_id); empty when it returns None.
find_other_peer(rms, room, client_id) ==
    IF room \in DOMAIN rms
    THEN {id \in DOMAIN rms[room] : id # client_id}
    ELSE {}

\* get_sender: the stored tx of client_id in room, NoConn for None.
get_sender(rms, room, client_id) ==
    IF room \in DOMAIN rms /\ client_id \in DOMAIN rms[room]
    THEN rms[room][client_id].tx
    ELSE NoConn

\* (variant: the retain predicate inverted)
retain_peers_inverted(room_peers, client_id) ==
    [i \in DOMAIN room_peers \cap {client_id} |-> room_peers[i]]

\* peers.retain(|id, _| id != client_id)
retain_peers(room_peers, client_id) ==
    [i \in DOMAIN room_peers \ {client_id} |-> room_peers[i]]

\* (variant: the registry keeps the entries, and the handles, of the id)
remove_from_rooms_keeps_handle(rms, client_id) == rms

\* (variant: the scan stops at the first room that holds the id)
remove_from_rooms_first_only(rms, client_id) ==
    LET holding == {x \in DOMAIN rms : client_id \in DOMAIN rms[x]}
        first == IF holding = {} THEN {}
                 ELSE {CHOOSE x \in holding : TRUE}
    IN  [r \in {x \in DOMAIN rms :
                    x \notin first \/ DOMAIN retain_peers(rms[x], client_id) # {}} |->
            IF r \in first THEN retain_peers(rms[r], client_id) ELSE rms[r]]

\* (variant: emptied rooms are kept)
remove_from_rooms_keep_empty(rms, client_id) ==
    [r \in DOMAIN rms |-> retain_peers(rms[r], client_id)]

\* remove_from_rooms: rooms.retain(|_, peers| { ...; !peers.is_empty() })
remove_from_rooms(rms, client_id) ==
    [r \in {x \in DOMAIN rms : DOMAIN retain_peers(rms[x], client_id) # {}} |->
        retain_peers(rms[r], client_id)]

\* (variant: the guard of the registry outlives the call)
unlock_rooms_leaked(c) == c

\* The MutexGuard taken by rooms.lock().await is dropped when the registry
\* function returns.
unlock_rooms(c) == Unlocked

\* ------------------------------------------------------------ sessions
\* ws_handler with a token that verifies: on_upgrade runs handle_socket,
\* which creates client_id, the channel and the writing task.
Admit(c, token) ==
    /\ pc[c] = "new"
    /\ token # NoToken
    /\ validate_token(token) # Unauthorized
    /\ pc' = [pc EXCEPT ![c] = "read"]
    /\ username' = [username EXCEPT ![c] = validate_token(token)]
    /\ rxOpen' = [rxOpen EXCEPT ![c] = TRUE]
    /\ txOpen' = [txOpen EXCEPT ![c] = TRUE]
    /\ wpc' = [wpc EXCEPT ![c] = "recv"]
    /\ UNCHANGED <<rooms, queue, writing, cur, other, held, budget>>
    /\ UNCHANGED <<rooms_lock, users_lock, users, hpc, client>>

\* ws_handler without a token, or with one that fails validate_token:
\* 401, no upgrade, nothing is created.
Reject(c, token) ==
    /\ pc[c] = "new"
    /\ token = NoToken \/ validate_token(token) = Unauthorized
    /\ UNCHANGED vars

\* Text frame holding a JoinRoom: join_room under the registry lock.
RecvJoin(c, text) ==
    /\ rooms_lock \in {Unlocked, c}
    /\ pc[c] = "read"
    /\ can_read(budget)
    /\ from_str(text).type = "JoinRoom"
    /\ \E ok \in BOOLEAN :
          /\ join_room(from_str(text).room, c, username[c], c, ok)
          /\ pc' = [pc EXCEPT ![c] = IF ok THEN "read" ELSE "sendFull"]
          /\ cur' = [cur EXCEPT ![c] = IF ok THEN "" ELSE text]
    /\ budget' = spend(budget)
    /\ UNCHANGED <<username, rxOpen, txOpen, wpc, writing, other, held>>
    /\ rooms_lock' = unlock_rooms(c)
    /\ UNCHANGED <<store, client>>

\* tx.send(Room full).await completes; continue.
SendRoomFull(c) ==
    /\ pc[c] = "sendFull"
    /\ send_ready(c)
    /\ queue' = send(c, Text(RoomFullText))
    /\ pc' = [pc EXCEPT ![c] = "read"]
    /\ cur' = [cur EXCEPT ![c] = ""]
    /\ UNCHANGED <<rooms, username, rxOpen, txOpen, wpc, writing, other, held,
                   budget>>
    /\ UNCHANGED <<rooms_lock, users_lock, users, hpc, client>>

\* Text frame holding an Offer, Answer or IceCandidate: find_other_peer
\* under the registry lock.
RecvRelay(c, text) ==
    /\ rooms_lock \in {Unlocked, c}
    /\ pc[c] = "read"
    /\ can_read(budget)
    /\ from_str(text).type \in RelayTypes
    /\ LET found == find_other_peer(rooms, from_str(text).room, c)
       IN  \/ /\ found = {}
              /\ pc' = [pc EXCEPT ![c] = "sendNoPeer"]
              /\ other' = other
           \/ \E other_id \in found :
                 /\ pc' = [pc EXCEPT ![c] = "getSender"]
                 /\ other' = [other EXCEPT ![c] = other_id]
    /\ cur' = [cur EXCEPT ![c] = text]
    /\ budget' = spend(budget)
    /\ UNCHANGED <<rooms, username, queue, rxOpen, txOpen, wpc, writing, held>>
    /\ rooms_lock' = unlock_rooms(c)
    /\ UNCHANGED <<store, client>>

\* get_sender under the registry lock.
GetSender(c) ==
    /\ rooms_lock \in {Unlocked, c}
    /\ pc[c] = "getSender"
    /\ LET other_tx == get_sender(rooms, from_str(cur[c]).room, other[c])
       IN  IF other_tx = NoConn
           THEN /\ pc' = [pc EXCEPT ![c] = "read"]
                /\ cur' = [cur EXCEPT ![c] = ""]
                /\ held' = held
           ELSE /\ pc' = [pc EXCEPT ![c] = "trySend"]
                /\ cur' = cur
                /\ held' = [held EXCEPT ![c] = other_tx]
    /\ other' = [other EXCEPT ![c] = NoConn]
    /\ UNCHANGED <<rooms, username, queue, rxOpen, txOpen, wpc, writing, budget>>
    /\ rooms_lock' = unlock_rooms(c)
    /\ UNCHANGED <<store, client>>

\* serde_json::to_string of the parsed message: what a relay that
\* serialised sig_msg again would send.
to_string(msg) ==
    CASE msg.type = "Offer" /\ msg.room = "r1" ->
            "{\"type\":\"Offer\",\"room\":\"r1\",\"sdp\":\"X\"}"
      [] msg.type = "Answer" /\ msg.room = "r1" -> AnswerR1
      [] msg.type = "IceCandidate" /\ msg.room = "r2" -> IceR2
      [] OTHER -> ""

\* (variant: the parsed message is serialised again)
relayed_reserialized(text) == Text(to_string(from_str(text)))

\* The frame handed to the other member: Message::Text(text.clone()).
relayed(text) == Text(text)

\* let _ = other_tx.try_send(Message::Text(text.clone())); other_tx dropped.
TrySend(c) ==
    /\ pc[c] = "trySend"
    /\ queue' = try_send(queue, held[c], relayed(cur[c]))
    /\ pc' = [pc EXCEPT ![c] = "read"]
    /\ cur' = [cur EXCEPT ![c] = ""]
    /\ held' = [held EXCEPT ![c] = NoConn]
    /\ UNCHANGED <<rooms, username, rxOpen, txOpen, wpc, writing, other, budget>>
    /\ UNCHANGED <<rooms_lock, users_lock, users, hpc, client>>

\* tx.send(No peer in room).await completes.
SendNoPeer(c) ==
    /\ pc[c] = "sendNoPeer"
    /\ send_ready(c)
    /\ queue' = send(c, Text(NoPeerText))
    /\ pc' = [pc EXCEPT ![c] = "read"]
    /\ cur' = [cur EXCEPT ![c] = ""]
    /\ UNCHANGED <<rooms, username, rxOpen, txOpen, wpc, writing, other, held,
                   budget>>
    /\ UNCHANGED <<rooms_lock, users_lock, users, hpc, client>>

\* A text frame that is no SignalingMessage: nothing happens.
RecvMalformed(c, text) ==
    /\ pc[c] = "read"
    /\ can_read(budget)
    /\ from_str(text) = Malformed
    /\ budget' = spend(budget)
    /\ UNCHANGED <<rooms, pc, username, queue, rxOpen, txOpen, wpc, writing,
                   cur, other, held>>
    /\ UNCHANGED <<rooms_lock, users_lock, users, hpc, client>>

\* A frame that is not Message::Text (binary, ping, pong, the client's
\* close frame): nothing happens.
RecvOther(c) ==
    /\ pc[c] = "read"
    /\ can_read(budget)
    /\ budget' = spend(budget)
    /\ UNCHANGED <<rooms, pc, username, queue, rxOpen, txOpen, wpc, writing,
                   cur, other, held>>
    /\ UNCHANGED <<rooms_lock, users_lock, users, hpc, client>>

\* stream.next() yields Some(Err(_)).
RecvError(c) ==
    /\ pc[c] = "read"
    /\ can_read(budget)
    /\ budget' = spend(budget)
    /\ pc' = [pc EXCEPT ![c] = "sendClose"]
    /\ UNCHANGED <<rooms, username, queue, rxOpen, txOpen, wpc, writing, cur,
                   other, held>>
    /\ UNCHANGED <<rooms_lock, users_lock, users, hpc, client>>

\* tx.send(Message::Close(None)).await completes; break.
SendClose(c) ==
    /\ pc[c] = "sendClose"
    /\ send_ready(c)
    /\ queue' = send(c, Close)
    /\ pc' = [pc EXCEPT ![c] = "remove"]
    /\ UNCHANGED <<rooms, username, rxOpen, txOpen, wpc, writing, cur, other,
                   held, budget>>
    /\ UNCHANGED <<rooms_lock, users_lock, users, hpc, client>>

\* stream.next() yields None: the read loop ends.
RecvEnd(c) ==
    /\ pc[c] = "read"
    /\ can_read(budget)
    /\ budget' = spend(budget)
    /\ pc' = [pc EXCEPT ![c] = "remove"]
    /\ UNCHANGED <<rooms, username, queue, rxOpen, txOpen, wpc, writing, cur,
                   other, held>>
    /\ UNCHANGED <<rooms_lock, users_lock, users, hpc, client>>

\* remove_from_rooms(&state, &client_id).await
RemoveFromRooms(c) ==
    /\ rooms_lock \in {Unlocked, c}
    /\ pc[c] = "remove"
    /\ rooms' = remove_from_rooms(rooms, c)
    /\ pc' = [pc EXCEPT ![c] = "dropTx"]
    /\ UNCHANGED <<username, queue, rxOpen, txOpen, wpc, writing, cur, other,
                   held, budget>>
    /\ rooms_lock' = unlock_rooms(c)
    /\ UNCHANGED <<store, client>>

\* drop(tx)
DropTx(c) ==
    /\ pc[c] = "dropTx"
    /\ txOpen' = [txOpen EXCEPT ![c] = FALSE]
    /\ pc' = [pc EXCEPT ![c] = "awaitWriter"]
    /\ UNCHANGED <<rooms, username, queue, rxOpen, wpc, writing, cur, other,
                   held, budget>>
    /\ UNCHANGED <<rooms_lock, users_lock, users, hpc, client>>

\* (variant: handle_socket returns without awaiting the writing task)
AwaitWriter_detached(c) ==
    /\ pc[c] = "awaitWriter"
    /\ pc' = [pc EXCEPT ![c] = "closed"]
    /\ UNCHANGED <<rooms, username, queue, rxOpen, txOpen, wpc, writing, cur,
                   other, held, budget>>
    /\ UNCHANGED <<rooms_lock, users_lock, users, hpc, client>>

\* let _ = writing_task.await; handle_socket returns.
AwaitWriter(c) ==
    /\ pc[c] = "awaitWriter"
    /\ wpc[c] = "done"
    /\ pc' = [pc EXCEPT ![c] = "closed"]
    /\ UNCHANGED <<rooms, username, queue, rxOpen, txOpen, wpc, writing, cur,
                   other, held, budget>>
    /\ UNCHANGED <<rooms_lock, users_lock, users, hpc, client>>

\* --------------------------------------------------------- writing task
\* rx.recv().await yields Some(msg); sink.send(msg) starts.
WriterRecv(c) ==
    /\ wpc[c] = "recv"
    /\ queue[c] # <<>>
    /\ writing' = [writing EXCEPT ![c] = Head(queue[c])]
    /\ queue' = [queue EXCEPT ![c] = Tail(@)]
    /\ wpc' = [wpc EXCEPT ![c] = "write"]
    /\ UNCHANGED <<rooms, pc, username, rxOpen, txOpen, cur, other, held, budget>>
    /\ UNCHANGED <<rooms_lock, users_lock, users, hpc, client>>

\* rx.recv().await yields None: the channel is empty and every Sender is
\* dropped; the task ends and drops rx.
WriterClosed(c) ==
    /\ wpc[c] = "recv"
    /\ queue[c] = <<>>
    /\ ~has_sender(c)
    /\ wpc' = [wpc EXCEPT ![c] = "done"]
    /\ rxOpen' = [rxOpen EXCEPT ![c] = FALSE]
    /\ UNCHANGED <<rooms, pc, username, queue, txOpen, writing, cur, other,
                   held, budget>>
    /\ UNCHANGED <<rooms_lock, users_lock, users, hpc, client>>

\* sink.send(msg).await returns Ok.
WriteOk(c) ==
    /\ wpc[c] = "write"
    /\ wpc' = [wpc EXCEPT ![c] = "recv"]
    /\ writing' = [writing EXCEPT ![c] = NoFrame]
    /\ UNCHANGED <<rooms, pc, username, queue, rxOpen, txOpen, cur, other,
                   held, budget>>
    /\ UNCHANGED <<rooms_lock, users_lock, users, hpc, client>>

\* sink.send(msg).await returns Err: break; the task ends and drops rx
\* with whatever it still buffers.
WriteErr(c) ==
    /\ wpc[c] = "write"
    /\ wpc' = [wpc EXCEPT ![c] = "done"]
    /\ writing' = [writing EXCEPT ![c] = NoFrame]
    /\ rxOpen' = [rxOpen EXCEPT ![c] = FALSE]
    /\ queue' = [queue EXCEPT ![c] = <<>>]
    /\ UNCHANGED <<rooms, pc, username, txOpen, cur, other, held, budget>>
    /\ UNCHANGED <<rooms_lock, users_lock, users, hpc, client>>

\* ---------------------------------------------------------------- spec
\* One step of connection c, whose client sends texts of the set texts.
Step(c, texts) ==
    \/ \E token \in Presents(c) : Admit(c, token) \/ Reject(c, token)
    \/ \E text \in texts :
          RecvJoin(c, text) \/ RecvRelay(c, text) \/ RecvMalformed(c, text)
    \/ RecvOther(c)
    \/ RecvError(c)
    \/ RecvEnd(c)
    \/ SendRoomFull(c)
    \/ GetSender(c)
    \/ TrySend(c)
    \/ SendNoPeer(c)
    \/ SendClose(c)
    \/ RemoveFromRooms(c)
    \/ DropTx(c)
    \/ AwaitWriter(c)
    \/ WriterRecv(c)
    \/ WriterClosed(c)
    \/ WriteOk(c)
    \/ WriteErr(c)

Next == \E c \in Conns : Step(c, InboundTexts)

Spec == Init /\ [][Next]_vars

\* The steps of c's reader that wait for nothing outside the server: its
\* replies, its registry calls and its teardown.  The runtime runs a task
\* that is ready; it cannot make a client send, close or read.
ReaderScheduled(c) ==
    \/ SendRoomFull(c)
    \/ GetSender(c)
    \/ TrySend(c)
    \/ SendNoPeer(c)
    \/ SendClose(c)
    \/ RemoveFromRooms(c)
    \/ DropTx(c)
    \/ AwaitWriter(c)

\* The same for c's writing task: taking the next frame, or seeing the
\* channel closed.
WriterScheduled(c) ==
    \/ WriterRecv(c)
    \/ WriterClosed(c)

\* The steps of session c the runtime schedules.
Scheduled(c) == ReaderScheduled(c) \/ WriterScheduled(c)

\* Every task that is ready runs, reader and writing task each on its own.
SpecFair ==
    /\ Spec
    /\ \A c \in Conns : WF_vars(ReaderScheduled(c))
    /\ \A c \in Conns : WF_vars(WriterScheduled(c))

\* Runs of two connections in which, moreover, the clients take or refuse
\* every frame written to them: each sink.send(msg).await returns, Ok or
\* Err.
LiveConns == {"c1", "c2"}

NextLive == \E c \in LiveConns : Step(c, InboundTexts)

SpecLive ==
    /\ Init
    /\ [][NextLive]_vars
    /\ \A c \in LiveConns : WF_vars(ReaderScheduled(c))
    /\ \A c \in LiveConns : WF_vars(WriterScheduled(c))
    /\ \A c \in LiveConns : WF_vars(WriteOk(c) \/ WriteErr(c))

\* Runs of two connections that fill an outbound queue of QueueCap frames.
\* The clients join r1 once each; c1's also relays into r1.  No disconnects and no failed writes; a write may stay
\* pending for ever (a client that does not read).
LoadConns == {"c1", "c2"}

LoadTexts(c) ==
    (IF \E r \in DOMAIN rooms : c \in DOMAIN rooms[r] THEN {} ELSE {JoinR1})
    \cup (IF c = "c1" THEN {OfferR1} ELSE {})

InitLoad ==
    /\ rooms = [r \in {} |-> NoPeers]
    /\ pc = [c \in Conns |-> "new"]
    /\ username = [c \in Conns |-> ""]
    /\ queue = [c \in Conns |-> <<>>]
    /\ rxOpen = [c \in Conns |-> FALSE]
    /\ txOpen = [c \in Conns |-> FALSE]
    /\ wpc = [c \in Conns |-> "none"]
    /\ writing = [c \in Conns |-> NoFrame]
    /\ cur = [c \in Conns |-> ""]
    /\ other = [c \in Conns |-> NoConn]
    /\ held = [c \in Conns |-> NoConn]
    /\ budget = Unbounded
    /\ rooms_lock = Unlocked
    /\ users_lock = Unlocked
    /\ users = [u \in {} |-> ""]
    /\ hpc = [h \in Https |-> "idle"]
    /\ data_channel = NoChannel
    /\ ready_state = [dc \in Channels |-> "uncreated"]
    /\ queued_messages = <<>>
    /\ dc_sent = [dc \in Channels |-> <<>>]
    /\ messages = <<>>
    /\ connection_status = "Disconnected"

LoadStep(c) ==
    \/ \E token \in Presents(c) : Admit(c, token)
    \/ \E text \in LoadTexts(c) : RecvJoin(c, text) \/ RecvRelay(c, text)
    \/ GetSender(c)
    \/ TrySend(c)
    \/ SendNoPeer(c)
    \/ WriterRecv(c)
    \/ WriteOk(c)

NextLoad == \E c \in LoadConns : LoadStep(c)

SpecLoad == InitLoad /\ [][NextLoad]_vars

\* Runs in which a relay target's queue fills or the target leaves: c1 and
\* c2 join r1 once each, c1's client relays into r1 while c2 is its peer,
\* and c2's client may close its connection.  The writers may stall or fail.
DropTexts(c) ==
    (IF \E r \in DOMAIN rooms : c \in DOMAIN rooms[r] THEN {} ELSE {JoinR1})
    \cup (IF c = "c1" /\ DOMAIN rooms = {"r1"} /\ DOMAIN rooms["r1"] = {"c1", "c2"}
          THEN {OfferR1} ELSE {})

DropStep(c) ==
    \/ \E token \in Presents(c) : Admit(c, token)
    \/ \E text \in DropTexts(c) : RecvJoin(c, text) \/ RecvRelay(c, text)
    \/ GetSender(c)
    \/ TrySend(c)
    \/ (c = "c2" /\ RecvEnd(c))
    \/ RemoveFromRooms(c)
    \/ DropTx(c)
    \/ AwaitWriter(c)
    \/ WriterRecv(c)
    \/ WriterClosed(c)
    \/ WriteOk(c)
    \/ WriteErr(c)

NextDrop == \E c \in LoadConns : DropStep(c)

SpecDrop == InitLoad /\ [][NextDrop]_vars

\* Runs of one exchange: c2 then c1 join r1, then c1's client sends an
\* Offer followed by an Answer.  The inbound frames arrive in this order;
\* the tasks interleave freely and every write may stall or fail.
FifoScript ==
    << [from |-> "c2", text |-> JoinR1], [from |-> "c1", text |-> JoinR1],
       [from |-> "c1", text |-> OfferR1], [from |-> "c1", text |-> AnswerR1] >>

\* The frame c's client sends next, if it is c's turn.
FifoTexts(c) ==
    IF budget \in 1..Len(FifoScript)
       /\ FifoScript[Len(FifoScript) - budget + 1].from = c
    THEN {FifoScript[Len(FifoScript) - budget + 1].text}
    ELSE {}

InitFifo ==
    /\ rooms = [r \in {} |-> NoPeers]
    /\ pc = [c \in Conns |-> "new"]
    /\ username = [c \in Conns |-> ""]
    /\ queue = [c \in Conns |-> <<>>]
    /\ rxOpen = [c \in Conns |-> FALSE]
    /\ txOpen = [c \in Conns |-> FALSE]
    /\ wpc = [c \in Conns |-> "none"]
    /\ writing = [c \in Conns |-> NoFrame]
    /\ cur = [c \in Conns |-> ""]
    /\ other = [c \in Conns |-> NoConn]
    /\ held = [c \in Conns |-> NoConn]
    /\ budget = Len(FifoScript)
    /\ rooms_lock = Unlocked
    /\ users_lock = Unlocked
    /\ users = [u \in {} |-> ""]
    /\ hpc = [h \in Https |-> "idle"]
    /\ data_channel = NoChannel
    /\ ready_state = [dc \in Channels |-> "uncreated"]
    /\ queued_messages = <<>>
    /\ dc_sent = [dc \in Channels |-> <<>>]
    /\ messages = <<>>
    /\ connection_status = "Disconnected"

FifoStep(c) ==
    \/ \E token \in Presents(c) : Admit(c, token)
    \/ \E text \in FifoTexts(c) : RecvJoin(c, text) \/ RecvRelay(c, text)
    \/ GetSender(c)
    \/ TrySend(c)
    \/ WriterRecv(c)
    \/ WriteOk(c)
    \/ WriteErr(c)

NextFifo == \E c \in LoadConns : FifoStep(c)

SpecFifo == InitFifo /\ [][NextFifo]_vars

\* ------------------------------------------------------------- mutexes
\* The sessions' variables.
session == <<rooms, pc, username, queue, rxOpen, txOpen, wpc, writing, cur,
             other, held, budget>>

\* state.rooms.lock().await returns in join_room or find_other_peer (the
\* reader has a frame that needs the registry), in get_sender, or in
\* remove_from_rooms: c holds the registry from here to the function's
\* return, while the other tasks run.
LockRooms(c) ==
    /\ rooms_lock = Unlocked
    /\ \/ pc[c] = "read" /\ can_read(budget)
       \/ pc[c] \in {"getSender", "remove"}
    /\ rooms_lock' = c
    /\ UNCHANGED <<session, store, client>>

\* Frames read but not yet counted in budget: the one for which the holder
\* of the registry entered join_room or find_other_peer.
unprocessed ==
    IF rooms_lock \in Conns /\ pc[rooms_lock] = "read" THEN 1 ELSE 0

\* The rest of a registry function, run by the holder of the lock.
Locked(c, texts) ==
    /\ rooms_lock = c
    /\ \/ \E text \in texts : RecvJoin(c, text) \/ RecvRelay(c, text)
       \/ GetSender(c)
       \/ RemoveFromRooms(c)

\* Bodies of the requests to /register and /login.
Payloads ==
    { [username |-> "alice", password |-> "secret1"],
      [username |-> "alice", password |-> "secret2"],
      [username |-> "al", password |-> "secret1"] }

\* payload.validate(): length(min = 3, max = 20) and length(min = 6).
validate(payload) ==
    /\ Len(payload.username) >= 3 /\ Len(payload.username) <= 20
    /\ Len(payload.password) >= 6

\* A request whose payload validates is about to lock the store; one whose
\* payload does not is answered 400 without touching it.
HttpRequest(h, handler, payload) ==
    /\ hpc[h] = "idle"
    /\ hpc' = [hpc EXCEPT ![h] =
                  IF validate(payload) THEN handler ELSE "bad request"]
    /\ UNCHANGED <<session, rooms_lock, users_lock, users, client>>

\* state.users.lock().await returns in register or login.
LockUsers(h) ==
    /\ hpc[h] \in {"register", "login"}
    /\ users_lock = Unlocked
    /\ users_lock' = h
    /\ UNCHANGED <<session, rooms_lock, users, hpc, client>>

\* register, with the store locked: 400 if the user exists, otherwise the
\* user is inserted; the guard is dropped at the return.
Register(h, payload) ==
    /\ hpc[h] = "register"
    /\ users_lock = h
    /\ validate(payload)
    /\ IF payload.username \in DOMAIN users
       THEN /\ users' = users
            /\ hpc' = [hpc EXCEPT ![h] = "exists"]
       ELSE /\ users' = [u \in DOMAIN users \cup {payload.username} |->
                            IF u = payload.username THEN payload.password
                            ELSE users[u]]
            /\ hpc' = [hpc EXCEPT ![h] = "created"]
    /\ users_lock' = Unlocked
    /\ UNCHANGED <<session, rooms_lock, client>>

\* login, with the store locked: a token if the stored password is the
\* one presented, 401 otherwise; the guard is dropped at the return.
Login(h, payload) ==
    /\ hpc[h] = "login"
    /\ users_lock = h
    /\ validate(payload)
    /\ hpc' = [hpc EXCEPT ![h] =
                  IF payload.username \in DOMAIN users
                     /\ users[payload.username] = payload.password
                  THEN "token" ELSE "unauthorized"]
    /\ users_lock' = Unlocked
    /\ UNCHANGED <<session, rooms_lock, users, client>>

\* Texts of the runs that watch the mutexes.
LockTexts == {JoinR1, OfferR1}

\* A session that holds the registry runs the registry function it is in;
\* one that does not takes any of its steps, a registry function in one
\* step when nothing runs in between.
SessionStep(c) ==
    \/ LockRooms(c)
    \/ Locked(c, LockTexts)
    \/ /\ rooms_lock # c
       /\ Step(c, LockTexts)
       /\ budget' # budget => budget > unprocessed

HttpStep(h) ==
    \/ \E handler \in {"register", "login"} : \E payload \in Payloads :
          HttpRequest(h, handler, payload)
    \/ LockUsers(h)
    \/ \E payload \in Payloads : Register(h, payload) \/ Login(h, payload)

NextLocks ==
    \/ \E c \in LoadConns : SessionStep(c)
    \/ \E h \in Https : HttpStep(h)

SpecLocks == Init /\ [][NextLocks]_vars

\* ---------------------------------------------------------- chat page
\* The chat page of one browser: its data channels, the list of messages
\* it shows and the list of messages waiting for the channel to open.

\* What the user may have typed when pressing send.
Contents == {"", "hi", "yo"}

\* An event payload that as_string() does not turn into a string.
NotAString == "binary"

\* What the peer may send over an open channel.
PeerData == {"hi", NotAString}

\* The peers lists a notification of the server may carry.
PeersLists == {<<"alice">>, <<"alice", "bob">>}

\* An entry of the messages list (its timestamp left out).
Message(content, sender) == [content |-> content, sender |-> sender]

\* dc.send_with_str(msg): msg is handed to channel dc.
send_with_str(sent, dc, msg) == [sent EXCEPT ![dc] = Append(@, msg)]

\* q.drain(..) with send_with_str on each element: the whole list is handed
\* to channel dc, first element first.
drain(sent, dc, q) == [sent EXCEPT ![dc] = @ \o q]

\* create_data_channel: a new channel, not yet open, replaces the page's
\* data_channel.
create_data_channel(dc) ==
    /\ ready_state[dc] = "uncreated"
    /\ ready_state' = [ready_state EXCEPT ![dc] = "connecting"]
    /\ data_channel' = dc
    /\ UNCHANGED <<queued_messages, dc_sent, messages, connection_status>>

\* The signalling socket's onmessage for a peers notification: a list of
\* two peers creates the data channel, any other list does nothing.
OnPeers(peers) ==
    /\ IF Len(peers) = 2
       THEN \E dc \in Channels : create_data_channel(dc)
       ELSE UNCHANGED client
    /\ UNCHANGED <<session, rooms_lock, store>>

\* The open event of channel dc: the channel becomes open and its onopen
\* handler runs, which sets the status and drains the queued list into dc.
onopen(dc) ==
    /\ ready_state[dc] = "connecting"
    /\ ready_state' = [ready_state EXCEPT ![dc] = "open"]
    /\ connection_status' = "Connected"
    /\ dc_sent' = drain(dc_sent, dc, queued_messages)
    /\ queued_messages' = <<>>
    /\ UNCHANGED <<data_channel, messages>>
    /\ UNCHANGED <<session, rooms_lock, store>>

\* Channel dc starts closing: ready_state() no longer answers Open.
closing(dc) ==
    /\ ready_state[dc] \in {"connecting", "open"}
    /\ ready_state' = [ready_state EXCEPT ![dc] = "closing"]
    /\ UNCHANGED <<data_channel, queued_messages, dc_sent, messages,
                   connection_status>>
    /\ UNCHANGED <<session, rooms_lock, store>>

\* The close event of channel dc: its onclose handler sets the status.
onclose(dc) ==
    /\ ready_state[dc] = "closing"
    /\ ready_state' = [ready_state EXCEPT ![dc] = "closed"]
    /\ connection_status' = "Disconnected"
    /\ UNCHANGED <<data_channel, queued_messages, dc_sent, messages>>
    /\ UNCHANGED <<session, rooms_lock, store>>

\* The message event of channel dc: a string is added to the messages list
\* as the peer's, anything else is ignored.
onmessage(dc, data) ==
    /\ ready_state[dc] = "open"
    /\ Len(messages) < MaxMessages
    /\ messages' = IF data = NotAString THEN messages
                   ELSE Append(messages, Message(data, "peer"))
    /\ UNCHANGED <<data_channel, ready_state, queued_messages, dc_sent,
                   connection_status>>
    /\ UNCHANGED <<session, rooms_lock, store>>

\* on_send with content in the input box.  Empty content does nothing.
\* Otherwise, when the page has a data channel the content is sent over it
\* if it is open and pushed on the queued list if it is not; when the page
\* has no data channel neither happens.  In both cases the content is added
\* to the messages list as the user's.
on_send(content) ==
    /\ Len(messages) < MaxMessages
    /\ IF content = ""
       THEN UNCHANGED client
       ELSE /\ IF data_channel # NoChannel
               THEN IF ready_state[data_channel] = "open"
                    THEN /\ dc_sent' =
                              send_with_str(dc_sent, data_channel, content)
                         /\ UNCHANGED queued_messages
                    ELSE /\ queued_messages' =
                              Append(queued_messages, content)
                         /\ UNCHANGED dc_sent
               ELSE UNCHANGED <<dc_sent, queued_messages>>
            /\ messages' = Append(messages, Message(content, "me"))
            /\ UNCHANGED <<data_channel, ready_state, connection_status>>
    /\ UNCHANGED <<session, rooms_lock, store>>

\* The chat page alone: notifications, channel events and submissions in
\* any order.
NextClient ==
    \/ \E peers \in PeersLists : OnPeers(peers)
    \/ \E dc \in Channels : onopen(dc)
    \/ \E dc \in Channels : closing(dc)
    \/ \E dc \in Channels : onclose(dc)
    \/ \E dc \in Channels : \E data \in PeerData : onmessage(dc, data)
    \/ \E content \in Contents : on_send(content)

SpecClient == Init /\ [][NextClient]_vars

\* ------------------------------------------------------------- claims
\* The members of room r, before and after a step.
members(r) == IF r \in DOMAIN rooms THEN DOMAIN rooms[r] ELSE {}
members_next(r) == IF r \in DOMAIN rooms' THEN DOMAIN rooms'[r] ELSE {}

\* c's channel takes one more frame: its receiver is alive and fewer than
\* QueueCap frames are buffered.
accepts(c) == rxOpen[c] /\ Len(queue[c]) < QueueCap

\* The frames c has buffered or is writing.
pending(c) == {queue[c][i] : i \in 1..Len(queue[c])} \cup {writing[c]}

\* The peers notifications that list the identities of c and d.
PeersOf(c, d) ==
    {Text(peers_json(<<username[c], username[d]>>)),
     Text(peers_json(<<username[d], username[c]>>))}

PeersFrames == {Text(peers_json(<<a, b>>)) : a, b \in {"alice", "bob"}}

\* C1: in every reachable state every room of the registry has at most 2
\* members.
C1_AtMostTwoMembers ==
    \A r \in DOMAIN rooms : Cardinality(DOMAIN rooms[r]) <= 2

\* C1 witness: a room is full and a third connection was refused.
C1_Witness ==
    \E r \in DOMAIN rooms : \E c \in Conns :
        /\ Cardinality(DOMAIN rooms[r]) = 2
        /\ c \notin DOMAIN rooms[r]
        /\ pc[c] = "sendFull"
        /\ from_str(cur[c]).room = r

\* C2 (as claimed): a JoinRoom for a room that has 2 members leaves the
\* registry and every queue unchanged, and the reply that follows puts
\* exactly one Room full frame on the joiner's own queue and nothing else.
C2_RoomFullReported ==
    [][\A c \in Conns :
          /\ \A text \in InboundTexts :
                (RecvJoin(c, text)
                    /\ Cardinality(members(from_str(text).room)) = 2)
                => (pc'[c] = "sendFull" /\ rooms' = rooms /\ queue' = queue)
          /\ (pc[c] = "sendFull" /\ pc'[c] = "read")
                => /\ rooms' = rooms
                   /\ queue' = [queue EXCEPT ![c] = Append(@, Text(RoomFullText))]
      ]_vars

\* C3 (as claimed): the first join of an empty room leaves it at size 1
\* and enqueues nothing; the second join brings it to size 2 and puts one
\* peers notification listing both identities on the queue of each of the
\* two members.
C3_BothNotified ==
    [][\A c \in Conns : \A text \in InboundTexts :
          LET r == from_str(text).room
          IN  RecvJoin(c, text) =>
                /\ members(r) = {} =>
                      (members_next(r) = {c} /\ queue' = queue)
                /\ \A d \in Conns \ {c} :
                      members(r) = {d} =>
                         /\ members_next(r) = {c, d}
                         /\ \E f \in PeersOf(c, d) :
                               queue' = [queue EXCEPT ![c] = Append(@, f),
                                                      ![d] = Append(@, f)]
      ]_vars

\* C3 (amended): the same, except that the notification is put on the
\* queue of each member whose channel accepts a frame, and is dropped for
\* a member whose channel does not.
C3_NotifiedIfAccepting ==
    [][\A c \in Conns : \A text \in InboundTexts :
          LET r == from_str(text).room
          IN  RecvJoin(c, text) =>
                /\ members(r) = {} =>
                      (members_next(r) = {c} /\ queue' = queue)
                /\ \A d \in Conns \ {c} :
                      members(r) = {d} =>
                         /\ members_next(r) = {c, d}
                         /\ \E f \in PeersOf(c, d) :
                               queue' = [m \in Conns |->
                                            IF m \in {c, d} /\ accepts(m)
                                            THEN Append(queue[m], f)
                                            ELSE queue[m]]
      ]_vars

\* C3 witness: c1 and c2 are paired in r1 and each holds the notification.
C3_Witness ==
    /\ members("r1") = {"c1", "c2"}
    /\ pending("c1") \cap PeersOf("c1", "c2") # {}
    /\ pending("c2") \cap PeersOf("c1", "c2") # {}

\* C4: while room R has exactly the members A and B, a relay frame naming
\* R and sent by A finds B, fetches B's own handle, and is put on B's
\* queue as the inbound text unchanged when B's channel accepts a frame;
\* nothing is put on A's queue.
C4_RelayedUnchanged ==
    [][\A a \in Conns : \A b \in Conns \ {a} :
          /\ \A text \in InboundTexts :
                (RecvRelay(a, text) /\ members(from_str(text).room) = {a, b})
                => (pc'[a] = "getSender" /\ other'[a] = b /\ queue' = queue)
          /\ (GetSender(a) /\ other[a] = b
                /\ members(from_str(cur[a]).room) = {a, b})
                => (pc'[a] = "trySend" /\ held'[a] = b /\ queue' = queue)
          /\ (TrySend(a) /\ held[a] = b
                /\ members(from_str(cur[a]).room) = {a, b} /\ accepts(b))
                => queue' = [queue EXCEPT ![b] = Append(@, Text(cur[a]))]
      ]_vars

\* C4 witness: c1 and c2 are the members of r1, no third session exists,
\* and c2 holds the Offer text as c1 sent it.
C4_Witness ==
    /\ members("r1") = {"c1", "c2"}
    /\ pc["c3"] = "new"
    /\ pc["c1"] = "read"
    /\ Text(OfferR1) \in pending("c2")
    /\ Text(OfferR1) \notin pending("c1")

\* C5 (as claimed): when room R has only member A, a relay frame naming R
\* and sent by A changes nothing but A's position, and the reply puts
\* exactly one No peer in room frame on A's queue and changes nothing else.
C5_NoPeerReported ==
    [][\A a \in Conns :
          /\ \A text \in InboundTexts :
                (RecvRelay(a, text) /\ members(from_str(text).room) = {a})
                => (pc'[a] = "sendNoPeer" /\ rooms' = rooms /\ queue' = queue)
          /\ (pc[a] = "sendNoPeer" /\ pc'[a] = "read"
                /\ members(from_str(cur[a]).room) = {a})
                => /\ rooms' = rooms
                   /\ queue' = [queue EXCEPT ![a] = Append(@, Text(NoPeerText))]
      ]_vars

\* C6 (as claimed): a relay frame sent by a connection that is not a member
\* of the room it names is answered with No peer in room, whatever the
\* membership of that room, and is delivered to nobody.
C6_NonMemberGetsNoPeer ==
    [][\A c \in Conns :
          /\ \A text \in InboundTexts :
                (RecvRelay(c, text) /\ c \notin members(from_str(text).room))
                => pc'[c] = "sendNoPeer"
          /\ (TrySend(c) /\ c \notin members(from_str(cur[c]).room))
                => queue' = queue
      ]_vars

\* C7: once a session's teardown has run remove_from_rooms its id is a
\* member of no room; the rooms it was the only member of are gone from the
\* registry; and a join of a room name the registry does not hold succeeds
\* with the joiner as only member and no notification.
C7_TeardownCleans ==
    [][\A c \in Conns :
          /\ pc'[c] \in {"dropTx", "awaitWriter", "closed"}
                => \A r \in DOMAIN rooms' : c \notin DOMAIN rooms'[r]
          /\ RemoveFromRooms(c)
                => \A r \in DOMAIN rooms :
                      DOMAIN rooms[r] = {c} => r \notin DOMAIN rooms'
          /\ \A text \in InboundTexts :
                (RecvJoin(c, text) /\ from_str(text).room \notin DOMAIN rooms)
                => /\ members_next(from_str(text).room) = {c}
                   /\ pc'[c] = "read"
                   /\ queue' = queue
      ]_vars

\* C7 witness: c1 was paired with c2 in r1 (c2 holds the notification
\* naming both) and has been torn down; c2 is left alone in r1.
C7_Witness ==
    /\ pc["c1"] = "closed"
    /\ members("r1") = {"c2"}
    /\ pending("c2") \cap PeersOf("c1", "c2") # {}

\* C8: no room of the registry has zero members.
C8_NoEmptyRoom ==
    \A r \in DOMAIN rooms : DOMAIN rooms[r] # {}

\* C8 witness: c1 was the only member of r1 (it holds an Offer relayed
\* into r1), its teardown has removed it, and the registry holds no room.
C8_Witness ==
    /\ pc["c1"] = "dropTx"
    /\ pc["c2"] = "read"
    /\ pc["c3"] = "new"
    /\ Text(OfferR1) \in pending("c1")
    /\ DOMAIN rooms = {}

\* C9: every room keeps at most two members; a JoinRoom for a room that
\* has two members (the sender may be one of them) fails and changes
\* neither registry nor queues; a JoinRoom by the only member of a room
\* sends nothing; a peers notification reaches a queue only in the step
\* that raises a room from 1 to 2 members, only for the members of that
\* room, and one frame at most per queue.
C9_PairingNotifiesOnce ==
    [][/\ \A r \in DOMAIN rooms' : Cardinality(DOMAIN rooms'[r]) <= 2
       /\ \A c \in Conns : \A text \in InboundTexts :
             LET r == from_str(text).room
             IN  RecvJoin(c, text) =>
                    /\ Cardinality(members(r)) = 2
                          => (pc'[c] = "sendFull" /\ rooms' = rooms
                              /\ queue' = queue)
                    /\ c \in members(r) => queue' = queue
       /\ \A d \in Conns :
             Len(queue'[d]) <= Len(queue[d]) + 1
       /\ \A d \in Conns :
             (Len(queue'[d]) = Len(queue[d]) + 1
                 /\ queue'[d][Len(queue'[d])] \in PeersFrames)
             => \E r \in DOMAIN rooms' :
                   /\ Cardinality(members(r)) = 1
                   /\ Cardinality(members_next(r)) = 2
                   /\ d \in members_next(r)
      ]_vars

\* C9 witness: c1 and c2 are paired in r1, each was notified, and c3's
\* JoinRoom for r1 was refused.
C9_Witness ==
    /\ members("r1") = {"c1", "c2"}
    /\ pc["c3"] = "sendFull"
    /\ cur["c3"] = JoinR1
    /\ pending("c1") \cap PeersOf("c1", "c2") # {}
    /\ pending("c2") \cap PeersOf("c1", "c2") # {}

\* The reader of c is replying to the frame it is processing.
replying(c) == pc[c] \in {"sendFull", "sendNoPeer", "sendClose"}

\* C10 (as claimed): whenever c's writer is in a physical write, c's queue
\* holds QueueCap frames and c's reader is replying to the current frame,
\* the reader can complete the reply and go on.
C10_ReaderNeverWaits ==
    \A c \in Conns :
        (wpc[c] = "write" /\ Len(queue[c]) = QueueCap /\ replying(c))
        => ENABLED (SendRoomFull(c) \/ SendNoPeer(c) \/ SendClose(c))

\* C11: a relay whose target's channel takes no frame (QueueCap frames
\* buffered, or its receiver gone), or whose target left the room between
\* find_other_peer and get_sender, is dropped: the step changes neither the
\* queues (the sender's included) nor the registry and the sender's reader
\* is back at reading; the reader can always take these two steps without
\* waiting; and no queue ever holds more than QueueCap frames.
C11_RelayDropped ==
    [][\A a \in Conns :
          /\ (TrySend(a) /\ ~accepts(held[a]))
                => (queue' = queue /\ rooms' = rooms /\ pc'[a] = "read")
          /\ (GetSender(a) /\ other[a] \notin members(from_str(cur[a]).room))
                => (queue' = queue /\ rooms' = rooms /\ pc'[a] = "read")
          /\ pc[a] \in {"getSender", "trySend"}
                => ENABLED (GetSender(a) \/ TrySend(a))
          /\ Len(queue'[a]) <= QueueCap
      ]_vars

\* C11 witness: c2's queue holds QueueCap frames behind a write that has
\* not completed, and c1 is handing it one more Offer.
C11_Witness ==
    /\ Len(queue["c2"]) = QueueCap
    /\ wpc["c2"] = "write"
    /\ pc["c1"] = "trySend"
    /\ held["c1"] = "c2"
    /\ cur["c1"] = OfferR1

\* C11, second case reached: c1 found c2 in r1, c2 has since left the
\* room, and c1 is about to look up c2's handle.
C11_TargetLeft ==
    /\ pc["c1"] = "getSender"
    /\ other["c1"] = "c2"
    /\ "c2" \notin members("r1")
    /\ "c1" \in members("r1")

\* c's writing task ended on a failed write: it is over while the
\* session's own sender is still open.
write_failed(c) == wpc[c] = "done" /\ txOpen[c]

\* c's teardown has removed it from the registry.
torn_down(c) == pc[c] \in {"dropTx", "awaitWriter", "closed"}

\* C12 (as claimed): once the writing task of a session has ended on a
\* failed write, the session goes on to teardown and its id leaves every
\* room of the registry.
C12_WriteFailureTearsDown ==
    \A c \in Conns :
        write_failed(c) ~>
            (torn_down(c) /\ \A r \in DOMAIN rooms : c \notin DOMAIN rooms[r])

\* c is a member of no room, before and after a step.
in_no_room(c) == \A r \in DOMAIN rooms : c \notin DOMAIN rooms[r]
in_no_room_next(c) == \A r \in DOMAIN rooms' : c \notin DOMAIN rooms'[r]

\* C13: teardown runs remove_from_rooms, then drop(tx), then awaits the
\* writing task, in this order and each once: the position after the read
\* loop moves remove -> dropTx -> awaitWriter -> closed only; the id is out
\* of every room before the sender is dropped; the sender is dropped
\* nowhere else; and a closed session has its writing task ended, its
\* sender dropped and its id in no room.
C13_TeardownOrder ==
    [][\A c \in Conns :
          /\ pc'[c] = "dropTx"
                => (pc[c] \in {"remove", "dropTx"} /\ in_no_room_next(c)
                    /\ txOpen'[c])
          /\ pc'[c] = "awaitWriter"
                => (pc[c] \in {"dropTx", "awaitWriter"} /\ in_no_room_next(c)
                    /\ ~txOpen'[c])
          /\ pc'[c] = "closed"
                => (pc[c] \in {"awaitWriter", "closed"} /\ in_no_room_next(c)
                    /\ ~txOpen'[c] /\ wpc'[c] = "done" /\ ~rxOpen'[c])
          /\ (txOpen[c] /\ ~txOpen'[c])
                => (pc[c] = "dropTx" /\ in_no_room(c))
          /\ pc[c] = "closed" => pc'[c] = "closed"
      ]_vars

\* C13 witness: c1, once paired with c2 in r1, has left the registry and
\* dropped its sender, and waits for its writing task, which is still in a
\* physical write.
C13_Witness ==
    /\ pc["c1"] = "awaitWriter"
    /\ wpc["c1"] = "write"
    /\ writing["c1"] \in PeersOf("c1", "c2")
    /\ members("r1") = {"c2"}

\* C14 (as claimed): once teardown has dropped the session's sender, the
\* writing task starts no further physical write, whatever the channel
\* still buffers, and a closed session has no writing task running.
C14_NoWriteAfterClose ==
    [][\A c \in Conns :
          /\ pc[c] \in {"awaitWriter", "closed"}
                => ~(wpc[c] = "recv" /\ wpc'[c] = "write")
          /\ pc'[c] = "closed" => wpc'[c] = "done"
      ]_vars

\* The positions of frame f in c's queue.
positions(c, f) == {i \in 1..Len(queue[c]) : queue[c][i] = f}

\* C15: the channel of every recipient is first in, first out.  No step
\* reorders, duplicates or inserts into a queue: a queue is left as it is,
\* gets one frame at its end, loses its first frame to the writing task,
\* which writes that frame next, or is discarded with its receiver.  And
\* in the exchange where c1 sends an Offer and then an Answer to c2, each
\* is buffered for c2 at most once, the Answer is never buffered or written
\* ahead of the Offer, and once c1 is done an Offer still waiting to be
\* written has the Answer behind it.
C15_PerRecipientFifo ==
    /\ [][\A b \in Conns :
             \/ queue'[b] = queue[b] /\ (wpc'[b] = "write" => wpc[b] = "write")
             \/ /\ Len(queue'[b]) = Len(queue[b]) + 1
                /\ SubSeq(queue'[b], 1, Len(queue[b])) = queue[b]
                /\ writing'[b] = writing[b]
             \/ /\ queue[b] # <<>>
                /\ queue'[b] = Tail(queue[b])
                /\ writing'[b] = Head(queue[b])
                /\ wpc[b] = "recv" /\ wpc'[b] = "write"
             \/ queue'[b] = <<>> /\ ~rxOpen'[b]
         ]_vars
    /\ [](/\ Cardinality(positions("c2", Text(OfferR1))) <= 1
          /\ Cardinality(positions("c2", Text(AnswerR1))) <= 1
          /\ \A i \in positions("c2", Text(AnswerR1)) :
                \A j \in positions("c2", Text(OfferR1)) : j < i
          /\ writing["c2"] = Text(AnswerR1)
                => positions("c2", Text(OfferR1)) = {}
          /\ writing["c2"] = Text(OfferR1)
                => (/\ positions("c2", Text(OfferR1)) = {}
                    /\ (budget = 0 /\ pc["c1"] = "read" /\ rxOpen["c2"])
                          => positions("c2", Text(AnswerR1)) # {})
          /\ (positions("c2", Text(OfferR1)) # {} /\ budget = 0
                 /\ pc["c1"] = "read")
                => positions("c2", Text(AnswerR1)) # {})

\* C15 witness: c2's writer is writing the peers notification while the
\* Offer and, behind it, the Answer of c1 wait in c2's queue.
C15_Witness ==
    /\ writing["c2"] \in PeersOf("c1", "c2")
    /\ queue["c2"] = <<Text(OfferR1), Text(AnswerR1)>>
    /\ pc["c1"] = "read"

\* The mutexes task t holds.
holds(t) ==
    (IF rooms_lock = t THEN {"rooms"} ELSE {})
    \cup (IF users_lock = t THEN {"users"} ELSE {})

\* C16: no task holds the mutex of the registry and that of the
\* credential store together; the holder of the registry is a session
\* inside a registry function, not one waiting to put a frame on a queue,
\* for its writing task or for the socket, and no writing task ever holds
\* it; and the holder of either mutex can always run to its release, so no
\* task waits for a mutex for ever.
C16_LocksNeverNested ==
    /\ \A t \in Conns \cup Https : Cardinality(holds(t)) <= 1
    /\ rooms_lock \in Conns \cup {Unlocked}
    /\ users_lock \in Https \cup {Unlocked}
    /\ \A c \in Conns :
          rooms_lock = c =>
             /\ pc[c] \in {"read", "getSender", "remove"}
             /\ ENABLED Locked(c, LockTexts)
    /\ \A h \in Https :
          users_lock = h =>
             /\ hpc[h] \in {"register", "login"}
             /\ ENABLED (\E payload \in Payloads :
                            Register(h, payload) \/ Login(h, payload))

\* C16 witness: c1 holds the registry inside remove_from_rooms while c2
\* waits for it in get_sender, and h1 holds the credential store inside
\* register while h2 waits for it in login.
C16_Witness ==
    /\ rooms_lock = "c1" /\ pc["c1"] = "remove"
    /\ pc["c2"] = "getSender"
    /\ users_lock = "h1" /\ hpc["h1"] = "register"
    /\ hpc["h2"] = "login"

\* The tokens the server signed and that have not expired.
verifies(token) == token \in {"tok-alice", "tok-bob"}

\* C17: a connection that was not admitted has no session: no channel, no
\* writing task, no identity, no place in the registry.  A connection that
\* has one presented a token that verifies and carries the identity
\* verification returned for it; every id in the registry belongs to such
\* a session and is stored with that identity and that session's handle.
C17_AdmittedOnly ==
    /\ \A c \in Conns :
          IF pc[c] = "new"
          THEN /\ ~rxOpen[c] /\ ~txOpen[c] /\ wpc[c] = "none"
               /\ queue[c] = <<>> /\ username[c] = ""
               /\ \A r \in DOMAIN rooms : c \notin DOMAIN rooms[r]
          ELSE \E token \in Presents(c) :
                  /\ token # NoToken
                  /\ verifies(token)
                  /\ username[c] = validate_token(token)
    /\ \A r \in DOMAIN rooms : \A id \in DOMAIN rooms[r] :
          /\ id \in Conns
          /\ pc[id] # "new"
          /\ rooms[r][id] = [user |-> username[id], tx |-> id]

\* C17 witness: c1 and c2 were admitted as alice and bob and share r1,
\* while c3, whose client may only have been refused, has no session.
C17_Witness ==
    /\ pc["c3"] = "new"
    /\ DOMAIN rooms = {"r1"}
    /\ rooms["r1"] = [id \in {"c1", "c2"} |->
                         [user |-> IF id = "c1" THEN "alice" ELSE "bob", tx |-> id]]

\* The texts that are no SignalingMessage: not JSON, a type that names no
\* variant, no type, a variant without one of its fields.
MalformedTexts == {NotJson, UnknownType, NoType, NoSdp}

\* C18: whatever the reader does with a text that is no SignalingMessage,
\* or with a frame that is no text, leaves the registry, every queue and
\* every session's position as they are, the reader at reading; and a
\* reader that is reading can always take such a frame.
C18_MalformedIgnored ==
    [][\A c \in Conns :
          /\ \A text \in MalformedTexts :
                /\ (RecvJoin(c, text) \/ RecvRelay(c, text)
                        \/ RecvMalformed(c, text))
                      => (rooms' = rooms /\ queue' = queue /\ pc' = pc
                          /\ pc'[c] = "read" /\ writing' = writing)
                /\ (pc[c] = "read" /\ can_read(budget))
                      => ENABLED RecvMalformed(c, text)
          /\ RecvOther(c)
                => (rooms' = rooms /\ queue' = queue /\ pc' = pc
                    /\ pc'[c] = "read" /\ writing' = writing)
      ]_vars

\* C18 witness: every frame read in the run went to c1, whose session is
\* still reading with the registry and its queue empty and its writing
\* task idle, as after frames that were all ignored.
C18_Witness ==
    /\ pc["c1"] = "read" /\ pc["c2"] = "new" /\ pc["c3"] = "new"
    /\ budget = 0
    /\ DOMAIN rooms = {}
    /\ queue["c1"] = <<>>
    /\ wpc["c1"] = "recv"

\* C19 (as claimed): a session leaves its read loop for teardown only
\* through the reply that puts a close frame on its own queue, which it
\* does whenever its channel accepts a frame.
C19_CloseFrameOnEnd ==
    [][\A c \in Conns :
          (pc[c] \in {"read", "sendClose"} /\ pc'[c] = "remove")
          => /\ pc[c] = "sendClose"
             /\ accepts(c) => queue'[c] = Append(queue[c], Close)
      ]_vars

\* C20 (as claimed): every member of every room is stored with the handle
\* of its own session, that session has not started dropping its sender,
\* and its writing task is still consuming its queue.
C20_RegistryEntriesLive ==
    \A r \in DOMAIN rooms : \A id \in DOMAIN rooms[r] :
        /\ rooms[r][id].tx = id
        /\ pc[id] \notin {"new", "dropTx", "awaitWriter", "closed"}
        /\ rxOpen[id]
        /\ wpc[id] \in {"recv", "write"}

\* C21: a JoinRoom for a room with fewer than 2 members, sent by a member
\* of another room, succeeds: the sender is then a member of both, and
\* every other room is as it was.  remove_from_rooms in the teardown of a
\* member of several rooms takes it out of all of them.
C21_MultiRoomMembership ==
    [][\A c \in Conns :
          /\ \A text \in InboundTexts :
                LET r2 == from_str(text).room
                IN  (RecvJoin(c, text)
                        /\ Cardinality(members(r2) \ {c}) < RoomCap
                        /\ Cardinality(members(r2)) < RoomCap
                        /\ \E r1 \in DOMAIN rooms : r1 # r2 /\ c \in members(r1))
                    => /\ pc'[c] = "read"
                       /\ c \in members_next(r2)
                       /\ \A r1 \in DOMAIN rooms \ {r2} :
                             r1 \in DOMAIN rooms' /\ rooms'[r1] = rooms[r1]
          /\ RemoveFromRooms(c)
                => /\ in_no_room_next(c)
                   /\ \A r \in DOMAIN rooms :
                         members_next(r) = members(r) \ {c}
      ]_vars

\* C21 witness: c1 is the only member of r1 and of r2 at once, its inbound
\* stream has ended and its teardown is about to remove it from both.
C21_Witness ==
    /\ pc["c1"] = "remove"
    /\ DOMAIN rooms = {"r1", "r2"}
    /\ members("r1") = {"c1"}
    /\ members("r2") = {"c1"}

\* C22 (as claimed): a relay frame is put on a queue only when its sender
\* is a member of the room the frame names (the sender's own membership
\* does not change between its lookup and its try_send).
C22_RoomIsolation ==
    [][\A c \in Conns :
          (TrySend(c) /\ queue' # queue)
          => c \in members(from_str(cur[c]).room)
      ]_vars

\* C23 (as claimed): once the teardown of session b has taken its id out
\* of the registry, no step of another session puts a frame on b's queue.
C23_NoEnqueueAfterLeave ==
    [][\A b \in Conns : \A a \in Conns \ {b} :
          (torn_down(b) /\ TrySend(a) /\ held[a] = b)
          => queue'[b] = queue[b]
      ]_vars

\* c's inbound stream has ended or failed: its reader is past the loop or
\* in the reply to a read error.
inbound_over(c) == pc[c] \in {"sendClose", "remove"}

\* C24: when every ready task runs and every physical write returns, a
\* session whose inbound stream has ended or failed ends up out of the
\* registry, with its writing task over and handle_socket returned.
C24_TeardownTerminates ==
    \A c \in Conns :
        inbound_over(c) ~>
            (pc[c] = "closed" /\ wpc[c] = "done" /\ in_no_room(c))

\* C24 witness: c1 was paired with c2 in r1 and then relayed to by c2; its
\* stream has ended and handle_socket has returned, its writing task over,
\* with c2 left alone in r1.
C24_Witness ==
    /\ pc["c1"] = "closed"
    /\ wpc["c1"] = "done"
    /\ members("r1") = {"c2"}
    /\ ~rxOpen["c1"]
    /\ pc["c2"] = "read"
    /\ wpc["c2"] = "write"

\* The page's data channel is open.
channel_open ==
    data_channel # NoChannel /\ ready_state[data_channel] = "open"

\* C25 (as claimed): every non-empty message submitted while the page's
\* data channel is not open (not created, or created and not Open) is
\* appended to the queued list and not sent; a message submitted while it
\* is open is sent over it at once and not queued; and when a channel
\* opens the queued messages are sent over it once each, in submission
\* order, and the queued list is left empty.
C25_ClientSendQueue ==
    [][/\ \A content \in Contents \ {""} :
            on_send(content) =>
                IF channel_open
                THEN /\ dc_sent' = send_with_str(dc_sent, data_channel,
                                                 content)
                     /\ queued_messages' = queued_messages
                ELSE /\ queued_messages' = Append(queued_messages, content)
                     /\ dc_sent' = dc_sent
       /\ \A dc \in Channels :
            onopen(dc) =>
                /\ dc_sent'[dc] = dc_sent[dc] \o queued_messages
                /\ \A d \in Channels \ {dc} : dc_sent'[d] = dc_sent[d]
                /\ queued_messages' = <<>>
      ]_vars

====
